---- MODULE Spec2Model ----
(***************************************************************************)
(* Model of the codecell-runner execution orchestrator: RunnerServer.Run   *)
(* and RunnerServer.Stop (internal/server.go, the revision with            *)
(* writeMessage and the statistics relay), the container operations of     *)
(* ContainersService, and the attach pipeline of LogsService.AttachIO.     *)
(*                                                                         *)
(* One Run session is modelled together with the goroutines it spawns,     *)
(* the container it drives, its context, its response stream, and a        *)
(* client that issues Stop calls.  Every step of Run is one call that can  *)
(* block or fail; the select loop of Run is one action per case.           *)
(***************************************************************************)
EXTENDS Integers, Sequences, FiniteSets, TLC

\* ---------------------------------------------------------------- bounds
\* Most output lines a program writes (stdout and stderr together).
MaxLines == 2
\* Most Stop calls a client issues.
MaxStops == 1
\* Most stdin lines of a request.
MaxStdin == 2

\* ------------------------------------------------------------- constants
\* uuid.New() of the session, and an id no session ever had.
RequestID == "r1"
UnknownID == "r0"
RequestIDs == {RequestID, UnknownID}
\* result.ID of ContainerCreate.
ContainerID == "c1"
\* Keys of imagesMapping, and the languages a request may name.
imagesMapping == {"dotnet"}
Languages == {"dotnet", "ruby"}
\* timeout_seconds of a request: non-positive and positive.
Timeouts == {0, 5}
\* Exit codes of a program that exits on its own.
ExitCodes == {0, 3}
\* Exit status of a container ended by SIGKILL.
KilledCode == 128 + 9
\* File descriptors of the attached stream.
Fds == {"stdout", "stderr"}

VARIABLES
    \* --- Run: request, position, locals, return value
    pc,          \* position of Run
    req,         \* the RunRequest
    containerID, \* local containerID of Run ("" until CreateContainer succeeds)
    tdFound,     \* teardown: ok of the lookup s.requests[requestID]
    chanNil,     \* select loop: the local channel variables set to nil
    result,      \* "none" until Run returns, then "nil" or the error returned
    \* --- RunnerServer
    requests,    \* s.requests
    cancels,     \* s.cancels
    mutex,       \* s.mutex: "unlocked", or "Run" while Run is between Lock and Unlock
    \* --- context and response stream
    ctxErr,      \* ctx.Err(): "none" while ctx is live
    events,      \* the messages stream.Send delivered, in order (STATISTICS
                 \* messages, which may fall anywhere among them, are left out)
    \* --- container
    cstate,      \* "none", "created", "running", "exited", "removed"
    cexit,       \* exit status of the container (-1 while it has none)
    produced,    \* lines the program wrote so far, per file descriptor
    calls,       \* how often each container operation was invoked, and by whom
    stdinSink,   \* [written: what was written to stdin, closes: CloseWrite calls]
    \* --- AttachIO goroutines
    raw,         \* frames of the attached stream not yet demultiplexed
    pump,        \* per fd: 0 scanning, k > 0 blocked sending line k, -1 returned
    demux,       \* StdCopy goroutine: "none", "run", "done" (pipe writers closed)
    chClosed,    \* outCh and errCh closed
    \* --- WaitForContainer and statistics
    wait,        \* "none", "waiting", "status", "errctx", "errfault", "taken"
    relay,       \* statistics relay goroutine: "none", "run", "sending", "done"
    \* --- Stop
    stop,        \* the Stop call in flight or last finished
    stopCount,   \* Stop calls issued
    path         \* the return statement Run left through ("none" before it)

vars == <<pc, req, containerID, tdFound, chanNil, result, requests, cancels, mutex,
          ctxErr, events, cstate, cexit, produced, calls,
          stdinSink, raw, pump, demux, chClosed, wait, relay, stop, stopCount, path>>

runVars == <<pc, req, containerID, tdFound, chanNil, result, path>>
regVars == <<requests, cancels, mutex>>
ctrVars == <<cstate, cexit, produced>>
ioVars == <<raw, pump, demux, chClosed>>
stopVars == <<stop, stopCount>>

\* ----------------------------------------------------------------- events
Event(level, msg, n) == [level |-> level, msg |-> msg, n |-> n]
Info(msg) == Event("INFO", msg, 0)
ErrorEv(msg) == Event("ERROR", msg, 0)
LineEv(fd, k) == Event(IF fd = "stdout" THEN "STDOUT" ELSE "STDERR", "", k)
ExitCodeEv(code) == Event("EXIT_CODE", "", code)

\* stream.Send: delivers the message, or fails (the client is gone, the
\* transport broke) and delivers nothing.
Send(ev, sent) == IF sent THEN Append(events, ev) ELSE events

NoStop == [pc |-> "idle", id |-> UnknownID, containerOk |-> FALSE, cancelOk |-> FALSE,
           cid |-> "", late |-> FALSE, inLoop |-> FALSE, result |-> "none"]

Cancelled(e) == IF e = "none" THEN "canceled" ELSE e

Init ==
    /\ pc = "idle"
    /\ req = [language |-> "dotnet", timeoutSeconds |-> 5, stdin |-> 0]
    /\ containerID = ""
    /\ tdFound = FALSE
    /\ chanNil = [stdout |-> FALSE, stderr |-> FALSE, status |-> FALSE]
    /\ result = "none"
    /\ requests = [k \in {} |-> ""]
    /\ cancels = [k \in {} |-> ""]
    /\ mutex = "unlocked"
    /\ ctxErr = "none"
    /\ events = <<>>
    /\ cstate = "none"
    /\ cexit = -1
    /\ produced = [fd \in Fds |-> 0]
    /\ calls = [attach |-> 0, start |-> 0, killRun |-> 0, killStop |-> 0, remove |-> 0]
    /\ stdinSink = [written |-> <<>>, closes |-> 0]
    /\ raw = <<>>
    /\ pump = [fd \in Fds |-> -1]
    /\ demux = "none"
    /\ chClosed = FALSE
    /\ wait = "none"
    /\ relay = "none"
    /\ stop = NoStop
    /\ stopCount = 0
    /\ path = "none"

\* ------------------------------------------------------------ Run handler
\* A return statement of Run after the teardown was deferred: the value is
\* fixed, the deferred teardown runs next.
Return(value, p) ==
    /\ pc' = "td_lookup"
    /\ result' = value
    /\ path' = p

\* `return writeMessage(ERROR, msg)`: Run returns what the send returned.
ReturnError(msg, p) ==
    \E sent \in BOOLEAN :
        /\ events' = Send(ErrorEv(msg), sent)
        /\ Return(IF sent THEN "nil" ELSE "sendErr", p)

\* Run is invoked: requestID, timeout, context.WithTimeout, defer cancel().
\* A non-positive timeout gives a context that is done from the start.
RunEnter(language, timeoutSeconds, stdin) ==
    /\ pc = "idle"
    /\ pc' = "info1"
    /\ req' = [language |-> language, timeoutSeconds |-> timeoutSeconds, stdin |-> stdin]
    /\ ctxErr' = IF timeoutSeconds <= 0 THEN "deadline" ELSE "none"
    /\ UNCHANGED <<containerID, tdFound, chanNil, result, path, regVars, events,
                   ctrVars, calls, stdinSink, ioVars, wait, relay, stopVars>>

\* writeMessage(INFO, "Starting up container..."); on failure Run returns
\* before the teardown is deferred, so only the deferred cancel() runs.
RunInfoStarting ==
    /\ pc = "info1"
    /\ \E sent \in BOOLEAN :
       /\ events' = Send(Info("Starting up container..."), sent)
       /\ IF sent
          THEN /\ pc' = "create"
               /\ UNCHANGED <<result, ctxErr, path>>
          ELSE /\ pc' = "returned"
               /\ result' = "sendErr"
               /\ ctxErr' = Cancelled(ctxErr)
               /\ path' = "send"
    /\ UNCHANGED <<req, containerID, tdFound, chanNil, regVars,
                   ctrVars, calls, stdinSink, ioVars, wait, relay, stopVars>>

\* CreateContainer without the imagesMapping lookup.
CreateOutcomesAnyLanguage(language) == {"create", "tar", "copy", "ok"}

\* CreateContainer: the outcomes of its four steps.  "unsupported": the
\* language is not in imagesMapping.  "create": ContainerCreate failed.
\* "tar": WriteSourceCode failed after the container was created.  "copy":
\* CopyToContainer failed after the container was created.  "ok": the
\* container exists and its ID is returned with a nil error.
CreateOutcomes(language) ==
    IF language \notin imagesMapping THEN {"unsupported"}
    ELSE {"create", "tar", "copy", "ok"}

CreateContainer(outcome) ==
    /\ cstate' = IF outcome \in {"tar", "copy", "ok"} THEN "created" ELSE cstate
    /\ UNCHANGED <<cexit, produced>>

\* fmt.Sprintf("Failed to create container: %v", err) for the error of each outcome.
CreateError(outcome) ==
    CASE outcome = "unsupported" ->
           "Failed to create container: the specified language is not supported"
      [] outcome = "create" -> "Failed to create container: ContainerCreate failed"
      [] outcome = "tar" -> "Failed to create container: WriteSourceCode failed"
      [] OTHER -> "Failed to create container: CopyToContainer failed"

\* Run calls CreateContainer; on an error it sends the Error message and returns.
RunCreate ==
    /\ pc = "create"
    /\ \E outcome \in CreateOutcomes(req.language) :
        /\ CreateContainer(outcome)
        /\ IF outcome = "ok"
           THEN /\ containerID' = ContainerID
                /\ pc' = "register"
                /\ UNCHANGED <<events, result, path>>
           ELSE /\ containerID' = IF outcome = "copy" THEN ContainerID ELSE ""
                /\ ReturnError(CreateError(outcome), "create")
    /\ UNCHANGED <<req, tdFound, chanNil, regVars, ctxErr, calls, stdinSink,
                   ioVars, wait, relay, stopVars>>

\* The registration with one Lock/Unlock pair around each map write: the
\* mutex is free again between the insert into requests and the insert
\* into cancels.
RunRegisterLockPerWrite ==
    /\ pc = "register"
    /\ mutex = "unlocked"
    /\ mutex' = "unlocked"
    /\ requests' = (RequestID :> containerID) @@ requests
    /\ pc' = "register_cs"
    /\ UNCHANGED <<req, containerID, tdFound, chanNil, result, path, cancels, ctxErr,
                   events, ctrVars, calls, stdinSink, ioVars, wait, relay, stopVars>>

\* s.mutex.Lock(); s.requests[requestID] = containerID.
RunRegisterLock ==
    /\ pc = "register"
    /\ mutex = "unlocked"
    /\ mutex' = "Run"
    /\ requests' = (RequestID :> containerID) @@ requests
    /\ pc' = "register_cs"
    /\ UNCHANGED <<req, containerID, tdFound, chanNil, result, path, cancels, ctxErr,
                   events, ctrVars, calls, stdinSink, ioVars, wait, relay, stopVars>>

\* Still under the mutex: s.cancels[requestID] = cancel; s.mutex.Unlock().
RunRegister ==
    /\ pc = "register_cs"
    /\ cancels' = (RequestID :> "cancel") @@ cancels
    /\ mutex' = "unlocked"
    /\ pc' = "info2"
    /\ UNCHANGED <<req, containerID, tdFound, chanNil, result, path, requests, ctxErr,
                   events, ctrVars, calls, stdinSink, ioVars, wait, relay, stopVars>>

\* writeMessage(INFO, "Execution container is created.").
RunInfoCreated ==
    /\ pc = "info2"
    /\ \E sent \in BOOLEAN :
       /\ events' = Send(Info("Execution container is created."), sent)
       /\ IF sent
          THEN pc' = "attach" /\ UNCHANGED <<result, path>>
          ELSE Return("sendErr", "send")
    /\ UNCHANGED <<req, containerID, tdFound, chanNil, regVars, ctxErr,
                   ctrVars, calls, stdinSink, ioVars, wait, relay, stopVars>>

\* Run going on to StartContainer although AttachIO returned an error.
RunAttachUnchecked ==
    /\ pc = "attach"
    /\ calls' = [calls EXCEPT !.attach = @ + 1]
    /\ \E ok \in (IF ctxErr = "none" THEN BOOLEAN ELSE {FALSE}) :
        /\ pump' = IF ok THEN [fd \in Fds |-> 0] ELSE pump
        /\ demux' = IF ok THEN "run" ELSE demux
        /\ pc' = "start"
    /\ UNCHANGED <<req, containerID, tdFound, chanNil, regVars, ctxErr, events, result,
                   path, ctrVars, stdinSink, raw, chClosed, wait, relay, stopVars>>

\* AttachIO: ContainerAttach under ctx.  It fails when ctx is done and may
\* fail otherwise; on success the demultiplexer and the two line pumps run.
RunAttach ==
    /\ pc = "attach"
    /\ calls' = [calls EXCEPT !.attach = @ + 1]
    /\ \E ok \in (IF ctxErr = "none" THEN BOOLEAN ELSE {FALSE}) :
        IF ok
        THEN /\ pump' = [fd \in Fds |-> 0]
             /\ demux' = "run"
             /\ pc' = "start"
             /\ UNCHANGED <<events, result, path>>
        ELSE /\ ReturnError("Failed to attach to the container.", "attach")
             /\ UNCHANGED <<pump, demux>>
    /\ UNCHANGED <<req, containerID, tdFound, chanNil, regVars, ctxErr,
                   ctrVars, stdinSink, raw, chClosed, wait, relay, stopVars>>

\* StartContainer: ContainerStart under context.Background().
StartContainer(ok) ==
    /\ calls' = [calls EXCEPT !.start = @ + 1]
    /\ cstate' = IF ok THEN "running" ELSE cstate
    /\ UNCHANGED <<cexit, produced>>

RunStart ==
    /\ pc = "start"
    /\ \E ok \in BOOLEAN :
        /\ StartContainer(ok)
        /\ IF ok
           THEN pc' = "stdin" /\ UNCHANGED <<events, result, path>>
           ELSE ReturnError("Failed to start the container.", "start")
    /\ UNCHANGED <<req, containerID, tdFound, chanNil, regVars, ctxErr,
                   stdinSink, ioVars, wait, relay, stopVars>>

\* The i-th line written without its newline.
StdinLineBare(i) == [line |-> i, newline |-> FALSE]

\* line + "\n" for the i-th line of request.Stdin.
StdinLine(i) == [line |-> i, newline |-> TRUE]

\* The stdin loop: io.WriteString(stdin, line + "\n") for the next line.
RunStdinWrite ==
    /\ pc = "stdin"
    /\ Len(stdinSink.written) < req.stdin
    /\ \E ok \in BOOLEAN :
        IF ok
        THEN /\ stdinSink' = [stdinSink EXCEPT !.written = Append(@, StdinLine(Len(@) + 1))]
             /\ UNCHANGED <<pc, events, result, path>>
        ELSE /\ ReturnError("Failed to write to the container stdin.", "stdin")
             /\ UNCHANGED stdinSink
    /\ UNCHANGED <<req, containerID, tdFound, chanNil, regVars, ctxErr,
                   ctrVars, calls, ioVars, wait, relay, stopVars>>

\* After the last line: CloseWrite on the connection (an error is only logged).
RunStdinClose ==
    /\ pc = "stdin"
    /\ Len(stdinSink.written) = req.stdin
    /\ stdinSink' = [stdinSink EXCEPT !.closes = @ + 1]
    /\ pc' = "stats"
    /\ UNCHANGED <<req, containerID, tdFound, chanNil, result, path, regVars, ctxErr,
                   events, ctrVars, calls, ioVars, wait, relay, stopVars>>

\* StreamContainerStatistics(ctx, containerID); on success the relay
\* goroutine is started, on failure Run sends an Error message and returns.
RunStatistics ==
    /\ pc = "stats"
    /\ \E ok \in BOOLEAN :
        IF ok
        THEN /\ relay' = "run"
             /\ pc' = "wait"
             /\ UNCHANGED <<events, result, path>>
        ELSE /\ ReturnError("Failed to stream container statistics.", "stats")
             /\ UNCHANGED relay
    /\ UNCHANGED <<req, containerID, tdFound, chanNil, regVars, ctxErr,
                   ctrVars, calls, stdinSink, ioVars, wait, stopVars>>

\* WaitForContainer(ctx, containerID): ContainerWait starts waiting.
RunWait ==
    /\ pc = "wait"
    /\ wait' = "waiting"
    /\ pc' = "loop"
    /\ UNCHANGED <<req, containerID, tdFound, chanNil, result, path, regVars, ctxErr,
                   events, ctrVars, calls, stdinSink, ioVars, relay, stopVars>>

\* KillContainer: ContainerKill with SIGKILL under context.Background().  It
\* ends a running container; on a container that is not running it fails.
KillOutcomes == IF cstate = "running" THEN BOOLEAN ELSE {FALSE}

KillContainer(ok) ==
    /\ cstate' = IF ok THEN "exited" ELSE cstate
    /\ cexit' = IF ok THEN KilledCode ELSE cexit
    /\ UNCHANGED produced

\* RemoveContainer: ContainerRemove without Force under context.Background().
\* It removes a container that is not running, or fails (the daemon is
\* already removing an exited container created with AutoRemove); on a
\* running container it fails.
RemoveOutcomes == IF cstate \in {"created", "exited"} THEN BOOLEAN ELSE {FALSE}

RemoveContainer(ok) ==
    /\ cstate' = IF ok THEN "removed" ELSE cstate
    /\ UNCHANGED <<cexit, produced>>

\* err.Error() of the error ContainerWait reports.
WaitMessage ==
    IF wait = "errfault" THEN "wait: lifecycle fault"
    ELSE IF ctxErr = "deadline" THEN "context deadline exceeded"
    ELSE "context canceled"

\* The loop condition with && in place of ||.
LoopCondAll == ~chanNil.stdout /\ ~chanNil.stderr /\ ~chanNil.status

\* The condition of the for loop around the select.
LoopCond == ~chanNil.stdout \/ ~chanNil.stderr \/ ~chanNil.status

\* The timeout case returning the error of KillContainer instead of going on.
RunLoopCtxDoneKillFatal ==
    /\ pc = "loop" /\ LoopCond
    /\ ctxErr # "none"
    /\ calls' = [calls EXCEPT !.killRun = @ + 1]
    /\ \E ok \in KillOutcomes :
        /\ KillContainer(ok)
        /\ IF ok
           THEN \E sent \in BOOLEAN :
                  /\ events' = Send(ErrorEv("Execution timed out."), sent)
                  /\ Return(IF sent THEN ctxErr ELSE "sendErr", "timeout")
           ELSE /\ Return("killErr", "timeout")
                /\ UNCHANGED events
    /\ UNCHANGED <<req, containerID, tdFound, chanNil, regVars, ctxErr,
                   stdinSink, ioVars, wait, relay, stopVars>>

\* The ctx.Done case taken only when the deadline has passed, not when
\* cancel was called.
RunLoopCtxDoneDeadlineOnly ==
    /\ pc = "loop" /\ LoopCond
    /\ ctxErr = "deadline"
    /\ \E ok \in KillOutcomes : KillContainer(ok)
    /\ calls' = [calls EXCEPT !.killRun = @ + 1]
    /\ \E sent \in BOOLEAN :
       /\ events' = Send(ErrorEv("Execution timed out."), sent)
       /\ Return(IF sent THEN ctxErr ELSE "sendErr", "timeout")
    /\ UNCHANGED <<req, containerID, tdFound, chanNil, regVars, ctxErr,
                   stdinSink, ioVars, wait, relay, stopVars>>

\* case <-ctx.Done(): KillContainer, writeMessage(ERROR, "Execution timed out."),
\* return ctx.Err().
RunLoopCtxDone ==
    /\ pc = "loop" /\ LoopCond
    /\ ctxErr # "none"
    /\ \E ok \in KillOutcomes : KillContainer(ok)
    /\ calls' = [calls EXCEPT !.killRun = @ + 1]
    /\ \E sent \in BOOLEAN :
       /\ events' = Send(ErrorEv("Execution timed out."), sent)
       /\ Return(IF sent THEN ctxErr ELSE "sendErr", "timeout")
    /\ UNCHANGED <<req, containerID, tdFound, chanNil, regVars, ctxErr,
                   stdinSink, ioVars, wait, relay, stopVars>>

\* case msg, ok := <-stdoutChannel / <-stderrChannel: a line the pump is
\* sending is relayed; a closed channel sets the local variable to nil.
RunLoopLine(fd) ==
    /\ pc = "loop" /\ LoopCond
    /\ ~chanNil[fd]
    /\ \/ /\ pump[fd] > 0
          /\ pump' = [pump EXCEPT ![fd] = 0]
          /\ \E sent \in BOOLEAN :
             /\ events' = Send(LineEv(fd, pump[fd]), sent)
             /\ IF sent
                THEN UNCHANGED <<pc, result, path>>
                ELSE Return("sendErr", "send")
          /\ UNCHANGED chanNil
       \/ /\ chClosed
          /\ chanNil' = [chanNil EXCEPT ![fd] = TRUE]
          /\ UNCHANGED <<pc, result, path, pump, events>>
    /\ UNCHANGED <<req, containerID, tdFound, regVars, ctxErr, ctrVars, calls,
                   stdinSink, raw, demux, chClosed, wait, relay, stopVars>>

\* case err := <-errorChannel: writeMessage(ERROR, err.Error()), return err.
RunLoopError ==
    /\ pc = "loop" /\ LoopCond
    /\ ~chanNil.status
    /\ wait \in {"errctx", "errfault"}
    /\ wait' = "taken"
    /\ \E sent \in BOOLEAN :
       /\ events' = Send(ErrorEv(WaitMessage), sent)
       /\ Return(IF sent THEN "waitErr" ELSE "sendErr", "lifecycle")
    /\ UNCHANGED <<req, containerID, tdFound, chanNil, regVars, ctxErr, ctrVars,
                   calls, stdinSink, ioVars, relay, stopVars>>

\* case exitStatus := <-statusChannel: send ExitCode, then statusChannel
\* and errorChannel are set to nil.
RunLoopStatus ==
    /\ pc = "loop" /\ LoopCond
    /\ ~chanNil.status
    /\ wait = "status"
    /\ wait' = "taken"
    /\ \E sent \in BOOLEAN :
       /\ events' = Send(ExitCodeEv(cexit), sent)
       /\ IF sent
          THEN /\ chanNil' = [chanNil EXCEPT !.status = TRUE]
               /\ UNCHANGED <<pc, result, path>>
          ELSE /\ Return("sendErr", "send")
               /\ UNCHANGED chanNil
    /\ UNCHANGED <<req, containerID, tdFound, regVars, ctxErr, ctrVars,
                   calls, stdinSink, ioVars, relay, stopVars>>

\* The loop condition is false: return nil.
RunLoopExit ==
    /\ pc = "loop" /\ ~LoopCond
    /\ Return("nil", "completed")
    /\ UNCHANGED <<req, containerID, tdFound, chanNil, regVars, ctxErr, events,
                   ctrVars, calls, stdinSink, ioVars, wait, relay, stopVars>>

\* The first critical section of the teardown with its Unlock deferred to
\* the end of the teardown function: the mutex stays held across Remove.
RunTeardownLookupKeepsLock ==
    /\ pc = "td_lookup"
    /\ mutex = "unlocked"
    /\ tdFound' = (RequestID \in DOMAIN requests)
    /\ mutex' = "Run"
    /\ pc' = IF RequestID \in DOMAIN requests THEN "td_remove" ELSE "td_delete"
    /\ UNCHANGED <<req, containerID, chanNil, result, path, requests, cancels, ctxErr, events,
                   ctrVars, calls, stdinSink, ioVars, wait, relay, stopVars>>

\* Deferred teardown, first critical section: Lock, containerID, ok :=
\* s.requests[requestID], Unlock.
RunTeardownLookup ==
    /\ pc = "td_lookup"
    /\ mutex = "unlocked"
    /\ tdFound' = (RequestID \in DOMAIN requests)
    /\ pc' = IF RequestID \in DOMAIN requests THEN "td_remove" ELSE "td_delete"
    /\ UNCHANGED <<req, containerID, chanNil, result, path, regVars, ctxErr, events,
                   ctrVars, calls, stdinSink, ioVars, wait, relay, stopVars>>

\* Deferred teardown: if ok, RemoveContainer (its error is dropped).
RunTeardownRemove ==
    /\ pc = "td_remove"
    /\ \E ok \in RemoveOutcomes : RemoveContainer(ok)
    /\ calls' = [calls EXCEPT !.remove = @ + 1]
    /\ pc' = "td_delete"
    /\ UNCHANGED <<req, containerID, tdFound, chanNil, result, path, regVars, ctxErr,
                   events, stdinSink, ioVars, wait, relay, stopVars>>

\* Deferred teardown, second critical section: s.mutex.Lock();
\* delete(s.requests, requestID).
RunTeardownLock ==
    /\ pc = "td_delete"
    /\ mutex = "unlocked"
    /\ mutex' = "Run"
    /\ requests' = [k \in DOMAIN requests \ {RequestID} |-> requests[k]]
    /\ pc' = "td_delete_cs"
    /\ UNCHANGED <<req, containerID, tdFound, chanNil, result, path, cancels, ctxErr,
                   events, ctrVars, calls, stdinSink, ioVars, wait, relay, stopVars>>

\* Still under the mutex: delete(s.cancels, requestID); s.mutex.Unlock();
\* then the deferred cancel() runs and Run has returned.
RunTeardownDelete ==
    /\ pc = "td_delete_cs"
    /\ cancels' = [k \in DOMAIN cancels \ {RequestID} |-> cancels[k]]
    /\ mutex' = "unlocked"
    /\ ctxErr' = Cancelled(ctxErr)
    /\ pc' = "returned"
    /\ UNCHANGED <<req, containerID, tdFound, chanNil, result, path, requests, events,
                   ctrVars, calls, stdinSink, ioVars, wait, relay, stopVars>>

Live == pc \notin {"idle", "returned"}

\* ----------------------------------------------------------- the context
\* The timer of context.WithTimeout fires.
DeadlineFire ==
    /\ Live /\ ctxErr = "none"
    /\ ctxErr' = "deadline"
    /\ UNCHANGED <<runVars, regVars, events, ctrVars, calls, stdinSink, ioVars,
                   wait, relay, stopVars>>

\* ------------------------------------------- the program in the container
\* The program writes its next line to stdout or stderr.
ProgWrite(fd) ==
    /\ cstate = "running"
    /\ produced.stdout + produced.stderr < MaxLines
    /\ produced' = [produced EXCEPT ![fd] = @ + 1]
    /\ raw' = Append(raw, [fd |-> fd, line |-> produced[fd] + 1])
    /\ UNCHANGED <<runVars, regVars, ctxErr, events, cstate, cexit, calls,
                   stdinSink, pump, demux, chClosed, wait, relay, stopVars>>

\* The program exits on its own.
ProgExit(code) ==
    /\ cstate = "running"
    /\ cstate' = "exited"
    /\ cexit' = code
    /\ UNCHANGED <<runVars, regVars, ctxErr, events, produced, calls,
                   stdinSink, ioVars, wait, relay, stopVars>>

\* ------------------------------------------------------- WaitForContainer
\* ContainerWait delivers the exit status once the container is not running.
WaitStatus ==
    /\ wait = "waiting"
    /\ cstate \in {"exited", "removed"}
    /\ wait' = "status"
    /\ UNCHANGED <<runVars, regVars, ctxErr, events, ctrVars, calls, stdinSink,
                   ioVars, relay, stopVars>>

\* ContainerWait is driven by ctx: once ctx is done the pending wait fails
\* with the context's error on the error channel.
WaitCtxError ==
    /\ wait = "waiting"
    /\ ctxErr # "none"
    /\ wait' = "errctx"
    /\ UNCHANGED <<runVars, regVars, ctxErr, events, ctrVars, calls, stdinSink,
                   ioVars, relay, stopVars>>

\* ContainerWait fails on its own (a lifecycle fault).
WaitFault ==
    /\ wait = "waiting"
    /\ wait' = "errfault"
    /\ UNCHANGED <<runVars, regVars, ctxErr, events, ctrVars, calls, stdinSink,
                   ioVars, relay, stopVars>>

\* ------------------------------------------------- AttachIO goroutines
\* StdCopy into a buffer that does not wait for its reader: a frame
\* replaces the line the pump has not handed over yet.
DemuxUnsynchronised ==
    /\ demux = "run"
    /\ raw # <<>>
    /\ pump[Head(raw).fd] >= 0
    /\ pump' = [pump EXCEPT ![Head(raw).fd] = Head(raw).line]
    /\ raw' = Tail(raw)
    /\ UNCHANGED <<runVars, regVars, ctxErr, events, ctrVars, calls, stdinSink,
                   demux, chClosed, wait, relay, stopVars>>

\* StdCopy copies the next frame into the pipe of its file descriptor; the
\* pipe write completes when the scanner of that pump reads it, and the
\* pump then blocks in `out <- scanner.Text()`.
Demux ==
    /\ demux = "run"
    /\ raw # <<>>
    /\ pump[Head(raw).fd] = 0
    /\ pump' = [pump EXCEPT ![Head(raw).fd] = Head(raw).line]
    /\ raw' = Tail(raw)
    /\ UNCHANGED <<runVars, regVars, ctxErr, events, ctrVars, calls, stdinSink,
                   demux, chClosed, wait, relay, stopVars>>

\* StdCopy reaches the end of the attached stream: both pipe writers close.
DemuxEOF ==
    /\ demux = "run"
    /\ raw = <<>>
    /\ cstate \in {"exited", "removed"}
    /\ demux' = "done"
    /\ UNCHANGED <<runVars, regVars, ctxErr, events, ctrVars, calls, stdinSink,
                   raw, pump, chClosed, wait, relay, stopVars>>

\* scanLines: scanner.Scan() returns false at the end of its pipe; wg.Done().
scanLinesReturn(fd) ==
    /\ demux = "done"
    /\ pump[fd] = 0
    /\ pump' = [pump EXCEPT ![fd] = -1]
    /\ UNCHANGED <<runVars, regVars, ctxErr, events, ctrVars, calls, stdinSink,
                   raw, demux, chClosed, wait, relay, stopVars>>

\* The channels closed at the end of the stream without wg.Wait().
CloseChannelsEarly ==
    /\ demux = "done"
    /\ ~chClosed
    /\ chClosed' = TRUE
    /\ pump' = [fd \in Fds |-> -1]
    /\ UNCHANGED <<runVars, regVars, ctxErr, events, ctrVars, calls, stdinSink,
                   raw, demux, wait, relay, stopVars>>

\* The channels closed as soon as one pump has returned.
CloseChannelsPerStream ==
    /\ demux = "done"
    /\ \E fd \in Fds : pump[fd] = -1
    /\ ~chClosed
    /\ chClosed' = TRUE
    /\ UNCHANGED <<runVars, regVars, ctxErr, events, ctrVars, calls, stdinSink,
                   raw, pump, demux, wait, relay, stopVars>>

\* After wg.Wait(): resp.Close(), close(errCh), close(outCh).
CloseChannels ==
    /\ demux = "done"
    /\ \A fd \in Fds : pump[fd] = -1
    /\ ~chClosed
    /\ chClosed' = TRUE
    /\ UNCHANGED <<runVars, regVars, ctxErr, events, ctrVars, calls, stdinSink,
                   raw, pump, demux, wait, relay, stopVars>>

\* ------------------------------------------------------ statistics relay
\* case stats, ok := <-statisticsChannel with ok: the statistics stream
\* delivers a sample (it does while ctx is live and the container runs)
\* and the relay starts stream.Send(STATISTICS).
RelayReceive ==
    /\ relay = "run"
    /\ ctxErr = "none" /\ cstate = "running"
    /\ relay' = "sending"
    /\ UNCHANGED <<runVars, regVars, ctxErr, events, ctrVars, calls, stdinSink,
                   ioVars, wait, stopVars>>

\* stream.Send of the relay returns; an error is only logged.
RelaySent ==
    /\ relay = "sending"
    /\ relay' = "run"
    /\ UNCHANGED <<runVars, regVars, ctxErr, events, ctrVars, calls, stdinSink,
                   ioVars, wait, stopVars>>

\* case <-ctx.Done(), or the statistics channel is closed: the relay returns.
RelayReturn ==
    /\ relay = "run"
    /\ ctxErr # "none" \/ cstate # "running"
    /\ relay' = "done"
    /\ UNCHANGED <<runVars, regVars, ctxErr, events, ctrVars, calls, stdinSink,
                   ioVars, wait, stopVars>>

\* ------------------------------------------------------------------ Stop
\* Stop is called; under the mutex it reads s.requests and s.cancels and
\* finds the container.
StopLookup(id) ==
    /\ stop.pc \in {"idle", "done"}
    /\ stopCount < MaxStops
    /\ mutex = "unlocked"
    /\ id \in DOMAIN requests
    /\ stopCount' = stopCount + 1
    /\ stop' = [pc |-> "looked", id |-> id, containerOk |-> TRUE,
                cancelOk |-> id \in DOMAIN cancels, cid |-> requests[id],
                late |-> (pc = "returned"), inLoop |-> FALSE, result |-> "none"]
    /\ UNCHANGED <<runVars, regVars, ctxErr, events, ctrVars, calls, stdinSink,
                   ioVars, wait, relay>>

\* The finished call: what it did ("Killed", "KillFailed", "Cancelled",
\* "Nothing") stands for the response (success, Internal, NotFound).
StopDone(what, inLoop) ==
    [stop EXCEPT !.pc = "done", !.result = what, !.inLoop = inLoop,
                 !.containerOk = FALSE, !.cancelOk = FALSE, !.cid = ""]

StopResponse ==
    CASE stop.result \in {"Killed", "Cancelled", "NoCancel"} -> "OK"
      [] stop.result = "KillFailed" -> "Internal"
      [] stop.result = "Nothing" -> "NotFound"
      [] OTHER -> "none"

\* Stop without the `if !containerOk` return: an unknown request goes on to
\* KillContainer with the empty container ID.
StopNotFoundUnchecked(id) ==
    /\ stop.pc \in {"idle", "done"}
    /\ stopCount < MaxStops
    /\ mutex = "unlocked"
    /\ id \notin DOMAIN requests
    /\ stopCount' = stopCount + 1
    /\ stop' = [pc |-> "done", id |-> id, containerOk |-> FALSE, cancelOk |-> FALSE,
                cid |-> "", late |-> (pc = "returned"), inLoop |-> FALSE,
                result |-> "KillFailed"]
    /\ calls' = [calls EXCEPT !.killStop = @ + 1]
    /\ UNCHANGED <<runVars, regVars, ctxErr, events, ctrVars, stdinSink,
                   ioVars, wait, relay>>

\* Stop is called and the lookup under the mutex finds no container:
\* if !containerOk, return NotFound.
StopNotFound(id) ==
    /\ stop.pc \in {"idle", "done"}
    /\ stopCount < MaxStops
    /\ mutex = "unlocked"
    /\ id \notin DOMAIN requests
    /\ stopCount' = stopCount + 1
    /\ stop' = [pc |-> "done", id |-> id, containerOk |-> FALSE, cancelOk |-> FALSE,
                cid |-> "", late |-> (pc = "returned"), inLoop |-> FALSE,
                result |-> "Nothing"]
    /\ UNCHANGED <<runVars, regVars, ctxErr, events, ctrVars, calls, stdinSink,
                   ioVars, wait, relay>>

\* A forced Stop that drops the error of KillContainer and reports success.
StopForceIgnoresError ==
    /\ stop.pc = "looked"
    /\ stop.containerOk
    /\ \E ok \in KillOutcomes :
        /\ KillContainer(ok)
        /\ stop' = StopDone("Killed", pc = "loop")
    /\ calls' = [calls EXCEPT !.killStop = @ + 1]
    /\ UNCHANGED <<runVars, regVars, ctxErr, events, stdinSink,
                   ioVars, wait, relay, stopCount>>

\* A forced Stop that also deletes the request from both maps after the kill.
StopForceUnregisters ==
    /\ stop.pc = "looked"
    /\ stop.containerOk
    /\ \E ok \in KillOutcomes :
        /\ KillContainer(ok)
        /\ stop' = StopDone(IF ok THEN "Killed" ELSE "KillFailed", pc = "loop")
    /\ calls' = [calls EXCEPT !.killStop = @ + 1]
    /\ requests' = [k \in DOMAIN requests \ {stop.id} |-> requests[k]]
    /\ cancels' = [k \in DOMAIN cancels \ {stop.id} |-> cancels[k]]
    /\ UNCHANGED <<runVars, mutex, ctxErr, events, stdinSink,
                   ioVars, wait, relay, stopCount>>

\* if request.Force: KillContainer; Internal if it fails, success otherwise.
StopForce ==
    /\ stop.pc = "looked"
    /\ stop.containerOk
    /\ \E ok \in KillOutcomes :
        /\ KillContainer(ok)
        /\ stop' = StopDone(IF ok THEN "Killed" ELSE "KillFailed", pc = "loop")
    /\ calls' = [calls EXCEPT !.killStop = @ + 1]
    /\ UNCHANGED <<runVars, regVars, ctxErr, events, stdinSink,
                   ioVars, wait, relay, stopCount>>

\* Otherwise: if cancelOk, cancel(); return success.
StopCancel ==
    /\ stop.pc = "looked"
    /\ stop.containerOk
    /\ ctxErr' = IF stop.cancelOk THEN Cancelled(ctxErr) ELSE ctxErr
    /\ stop' = StopDone(IF stop.cancelOk THEN "Cancelled" ELSE "NoCancel",
                        pc = "loop" /\ ctxErr = "none" /\ cstate = "running")
    /\ UNCHANGED <<runVars, regVars, events, ctrVars, calls, stdinSink,
                   ioVars, wait, relay, stopCount>>

\* ------------------------------------------------------------ the system
Next ==
    \/ \E l \in Languages, t \in Timeouts, n \in 0..MaxStdin : RunEnter(l, t, n)
    \/ RunInfoStarting
    \/ RunCreate
    \/ RunRegisterLock
    \/ RunRegister
    \/ RunInfoCreated
    \/ RunAttach
    \/ RunStart
    \/ RunStdinWrite
    \/ RunStdinClose
    \/ RunStatistics
    \/ RunWait
    \/ RunLoopCtxDone
    \/ \E fd \in Fds : RunLoopLine(fd)
    \/ RunLoopError
    \/ RunLoopStatus
    \/ RunLoopExit
    \/ RunTeardownLookup
    \/ RunTeardownRemove
    \/ RunTeardownLock
    \/ RunTeardownDelete
    \/ DeadlineFire
    \/ \E fd \in Fds : ProgWrite(fd)
    \/ \E code \in ExitCodes : ProgExit(code)
    \/ WaitStatus
    \/ WaitCtxError
    \/ WaitFault
    \/ Demux
    \/ DemuxEOF
    \/ \E fd \in Fds : scanLinesReturn(fd)
    \/ CloseChannels
    \/ RelayReceive
    \/ RelaySent
    \/ RelayReturn
    \/ \E id \in RequestIDs : StopLookup(id)
    \/ \E id \in RequestIDs : StopNotFound(id)
    \/ StopForce
    \/ StopCancel

Spec == Init /\ [][Next]_vars

\* The steps of the goroutine that executes Run, from the first INFO event
\* to the end of the deferred teardown.
RunStep ==
    \/ RunInfoStarting
    \/ RunCreate
    \/ RunRegisterLock
    \/ RunRegister
    \/ RunInfoCreated
    \/ RunAttach
    \/ RunStart
    \/ RunStdinWrite
    \/ RunStdinClose
    \/ RunStatistics
    \/ RunWait
    \/ RunLoopCtxDone
    \/ \E fd \in Fds : RunLoopLine(fd)
    \/ RunLoopError
    \/ RunLoopStatus
    \/ RunLoopExit
    \/ RunTeardownLookup
    \/ RunTeardownRemove
    \/ RunTeardownLock
    \/ RunTeardownDelete

\* The goroutine of Run is scheduled whenever it can take a step, and the
\* timer of context.WithTimeout expires while the session is live.
FairSpec == Spec /\ WF_vars(RunStep) /\ WF_vars(DeadlineFire)

\* ------------------------------------------------------------ properties
\* The delivered messages of one level, in order.
OfLevel(level) == SelectSeq(events, LAMBDA e : e.level = level)
Count(level) == Len(OfLevel(level))
\* Run has returned (its deferred calls included).
Returned == pc = "returned"
\* Every stream.Send of Run succeeded: the client saw all that Run emitted.
AllSent == result # "sendErr"
\* CreateContainer returned a container to Run.
Provisioned == containerID # "" /\ path # "create"
\* The program never exited on its own: it runs or was killed.
NeverExited == cstate = "running" \/ (cstate \in {"exited", "removed"} /\ cexit = KilledCode)
\* The wait never failed on its own.
NoFault == \A i \in 1..Len(events) : events[i].msg # "wait: lifecycle fault"

\* C1: a session whose sends all succeeded has exactly one terminal event
\* when Run has returned: one ERROR or one EXIT_CODE, never both, never neither.
C1_ExactlyOneTerminal ==
    (Returned /\ AllSent) => Count("ERROR") + Count("EXIT_CODE") = 1

\* C2: when the deadline passes while the program still runs (it never
\* exits on its own, nobody stops it, the wait does not fail on its own),
\* Run has emitted exactly one ERROR, "Execution timed out.", no EXIT_CODE,
\* and has invoked Kill before it returns.
C2_TimeoutKills ==
    (Returned /\ AllSent /\ ctxErr = "deadline" /\ path \in {"timeout", "lifecycle"}
       /\ NeverExited /\ NoFault /\ stop.pc = "idle")
    => /\ Count("ERROR") = 1
       /\ OfLevel("ERROR")[1].msg = "Execution timed out."
       /\ Count("EXIT_CODE") = 0
       /\ calls.killRun = 1

\* C3: once Run has returned, its requestId is in neither map, a Stop
\* issued after the return ends NotFound, and the container the session
\* was given is gone: Remove was invoked on it and it is not left running.
C3_AfterReturn ==
    /\ Returned => /\ RequestID \notin DOMAIN requests
                   /\ RequestID \notin DOMAIN cancels
                   /\ (Provisioned /\ AllSent) => calls.remove >= 1 /\ cstate # "running"
    /\ stop.late => stop.pc = "done" /\ StopResponse = "NotFound"

\* C4: a Stop whose requestId is not in the registry returns NotFound in
\* that step and changes nothing else: not the maps, not the context, not
\* the container, no Kill is counted.
C4_StopUnknown ==
    [][(stop' # stop /\ stop.pc # "looked" /\ stop'.id \notin DOMAIN requests)
        => /\ stop'.pc = "done" /\ stop'.result = "Nothing"
           /\ UNCHANGED <<requests, cancels, ctxErr, cstate, cexit, calls, events, pc>>]_vars

C4_Witness ==
    /\ stop.pc = "done" /\ StopResponse = "NotFound" /\ stop.id = UnknownID
    /\ RequestID \in DOMAIN requests /\ pc = "loop" /\ cstate = "running"

\* C5: a session force-stopped in its select loop (the Kill succeeded) has
\* returned an error or has sent an ERROR once Run has returned.
C5_ForceStopIsError ==
    (Returned /\ stop.result = "Killed" /\ stop.inLoop)
    => (result # "nil" \/ Count("ERROR") >= 1)

\* C6: after a Stop without force cancelled the context of a session in
\* its select loop with the program running (which then never exits on its
\* own, the wait does not fail on its own, every send succeeds), Run has
\* invoked Kill, sent ERROR "Execution timed out.", invoked Remove and
\* unregistered the request by the time it has returned.
C6_SoftStopConverges ==
    (Returned /\ AllSent /\ stop.result = "Cancelled" /\ stop.inLoop
       /\ NeverExited /\ NoFault)
    => /\ calls.killRun = 1
       /\ OfLevel("ERROR") = <<ErrorEv("Execution timed out.")>>
       /\ calls.remove = 1
       /\ RequestID \notin DOMAIN requests

\* The numbers 1..k in order: what k lines of one stream, relayed in the
\* order written with none skipped or repeated, carry.
IsPrefixOfWritten(fd) ==
    LET sent == OfLevel(IF fd = "stdout" THEN "STDOUT" ELSE "STDERR")
    IN  /\ Len(sent) <= produced[fd]
        /\ \A i \in 1..Len(sent) : sent[i].n = i

\* C7: the STDOUT messages delivered are a prefix of the stdout lines the
\* program wrote, in order, none skipped or repeated; likewise STDERR.
C7_LineOrder == \A fd \in Fds : IsPrefixOfWritten(fd)

C7_Witness ==
    /\ Count("STDOUT") + Count("STDERR") = MaxLines
    /\ \E fd \in Fds : produced[fd] >= 2 /\ IsPrefixOfWritten(fd)
                       /\ Len(OfLevel(IF fd = "stdout" THEN "STDOUT" ELSE "STDERR")) >= 2

\* C8: once the exit status of a program that exited on its own with
\* code N is relayed, the stream holds one EXIT_CODE, its value is N, and
\* no ERROR, now and ever after.
C8_OwnExitCode ==
    (cexit \in ExitCodes /\ Count("EXIT_CODE") >= 1)
    => /\ Count("EXIT_CODE") = 1
       /\ OfLevel("EXIT_CODE")[1].n = cexit
       /\ Count("ERROR") = 0

\* Run left through `return nil` after the loop.
Completed == path = "completed"

\* C9 as claimed: in a session that completed, EXIT_CODE is the last message.
C9_ExitCodeLast ==
    (Returned /\ Completed) => events[Len(events)].level = "EXIT_CODE"

\* C9 as amended: a session that completed sent INFO, INFO, then every
\* line the program wrote and exactly one EXIT_CODE carrying the exit
\* status, in some order, and no ERROR; EXIT_CODE need not be last.
C9_CompletedStream ==
    Completed
    => /\ Len(events) >= 3
       /\ events[1].level = "INFO" /\ events[2].level = "INFO"
       /\ Count("INFO") = 2
       /\ Count("EXIT_CODE") = 1 /\ OfLevel("EXIT_CODE")[1].n = cexit
       /\ Count("ERROR") = 0
       /\ Count("STDOUT") = produced.stdout /\ Count("STDERR") = produced.stderr

C9_Witness ==
    /\ Returned /\ Completed /\ cexit = 0
    /\ Len(events) = 4
    /\ events[3].level = "EXIT_CODE" /\ events[4] = LineEv("stdout", 1)

\* C10: a request whose language has no Technology never gets a container,
\* a registry entry, or any container operation; its stream holds no
\* EXIT_CODE, STDOUT or STDERR and at most one ERROR, and exactly one, the
\* unsupported language, once Run has returned with its sends delivered.
C10_UnsupportedLanguage ==
    (pc # "idle" /\ req.language \notin imagesMapping)
    => /\ cstate = "none"
       /\ RequestID \notin DOMAIN requests /\ RequestID \notin DOMAIN cancels
       /\ calls = [attach |-> 0, start |-> 0, killRun |-> 0, killStop |-> 0, remove |-> 0]
       /\ Count("EXIT_CODE") = 0 /\ Count("STDOUT") = 0 /\ Count("STDERR") = 0
       /\ Count("ERROR") <= 1
       /\ (Returned /\ AllSent) => OfLevel("ERROR") = <<ErrorEv(CreateError("unsupported"))>>

C10_Witness ==
    /\ Returned /\ req.language = "ruby" /\ stop.pc = "done"
    /\ events = <<Info("Starting up container..."), ErrorEv(CreateError("unsupported"))>>

\* C11: a request with a non-positive timeout is rejected or clamped when
\* the session is created: its session, whose context is past its deadline
\* from the start, never creates a container.
C11_NonPositiveTimeout ==
    (pc # "idle" /\ req.timeoutSeconds <= 0) => cstate = "none"

\* C12: when CreateContainer returned an error to Run (here: the timeout
\* was positive, the ERROR was delivered, Run has returned), no container
\* of the session exists: one that was allocated has been reclaimed.
C12_CreateErrorLeavesNothing ==
    (Returned /\ path = "create" /\ AllSent /\ req.timeoutSeconds > 0)
    => cstate \in {"none", "removed"}

\* The session registered its container: CreateContainer succeeded and Run
\* went on to the insert under the mutex.
Registered == Provisioned /\ pc \notin {"create", "register", "register_cs"}

\* C13: a session that registered a container has Remove invoked on it
\* exactly once by the time Run has returned, never more than once before,
\* and its requestId leaves the registry in one place only: the second
\* critical section of the teardown (two map deletes under one Lock), after
\* that Remove.
C13_TeardownOnce ==
    /\ [](calls.remove <= 1)
    /\ []((Returned /\ Registered)
            => /\ calls.remove = 1
               /\ RequestID \notin DOMAIN requests
               /\ RequestID \notin DOMAIN cancels)
    /\ [][(DOMAIN requests' # DOMAIN requests \/ DOMAIN cancels' # DOMAIN cancels)
          => \/ /\ pc = "register" /\ pc' = "register_cs"
                /\ DOMAIN requests' = {RequestID} /\ DOMAIN cancels' = {}
             \/ /\ pc = "register_cs" /\ pc' = "info2"
                /\ DOMAIN requests' = {RequestID} /\ DOMAIN cancels' = {RequestID}
             \/ /\ pc = "td_delete" /\ pc' = "td_delete_cs"
                /\ calls.remove = 1
                /\ DOMAIN requests' = {} /\ DOMAIN cancels' = {RequestID}
             \/ /\ pc = "td_delete_cs" /\ pc' = "returned"
                /\ calls.remove = 1
                /\ DOMAIN requests' = {} /\ DOMAIN cancels' = {}]_vars

C13_Witness ==
    /\ Returned /\ Registered /\ calls.remove = 1
    /\ path = "lifecycle" /\ stop.result = "Killed"
    /\ RequestID \notin DOMAIN requests

\* C14: Start is invoked only after AttachIO succeeded.  After a failed
\* AttachIO Start is never invoked, the one ERROR is the attach failure,
\* and the teardown invokes Remove on the container, which never ran.
\* After a failed Start nothing is written to stdin, the one ERROR is the
\* start failure, and the teardown invokes Remove likewise.
C14_AttachBeforeStart ==
    /\ calls.start >= 1 => calls.attach = 1 /\ demux # "none"
    /\ path = "attach"
       => /\ calls.start = 0 /\ demux = "none"
          /\ AllSent => OfLevel("ERROR") = <<ErrorEv("Failed to attach to the container.")>>
          /\ Returned => calls.remove = 1 /\ cstate \in {"created", "removed"}
    /\ path = "start"
       => /\ stdinSink = [written |-> <<>>, closes |-> 0]
          /\ AllSent => OfLevel("ERROR") = <<ErrorEv("Failed to start the container.")>>
          /\ Returned => calls.remove = 1 /\ cstate \in {"created", "removed"}

C14_Witness ==
    /\ Returned /\ path = "start" /\ AllSent
    /\ calls = [attach |-> 1, start |-> 1, killRun |-> 0, killStop |-> 0, remove |-> 1]
    /\ cstate = "removed"

\* C15: what Run wrote to stdin is the first lines of the request in
\* order, each with its newline, written only after Start succeeded; stdin
\* is half-closed at most once and only after the last line, and it is
\* half-closed before the statistics stream is opened and the loop entered.
\* After a failed write no further line is written, stdin is not
\* half-closed, the one ERROR is the write failure, the loop is never
\* entered, and the teardown has run once Run has returned.
C15_StdinProtocol ==
    /\ Len(stdinSink.written) <= req.stdin
    /\ \A i \in 1..Len(stdinSink.written) :
          stdinSink.written[i] = [line |-> i, newline |-> TRUE]
    /\ stdinSink.written # <<>> => calls.start = 1 /\ cstate \notin {"none", "created"}
    /\ stdinSink.closes <= 1
    /\ stdinSink.closes = 1 => Len(stdinSink.written) = req.stdin /\ calls.start = 1
    /\ (wait # "none" \/ relay # "none" \/ path = "stats") => stdinSink.closes = 1
    /\ path = "stdin"
       => /\ Len(stdinSink.written) < req.stdin
          /\ stdinSink.closes = 0
          /\ wait = "none" /\ relay = "none"
          /\ AllSent => OfLevel("ERROR") = <<ErrorEv("Failed to write to the container stdin.")>>
          /\ Returned => calls.remove = 1 /\ RequestID \notin DOMAIN requests

C15_Witness ==
    /\ Returned /\ path = "stdin" /\ AllSent
    /\ req.stdin = 2 /\ Len(stdinSink.written) = 1
    /\ calls.remove = 1

\* C16: a failure of the statistics relay, the failure to open the
\* statistics stream included, is not fatal: Run never sends an ERROR for
\* it and never returns because of it.
C16_StatisticsNotFatal ==
    /\ AllSent => path # "stats"
    /\ \A i \in 1..Len(events) : events[i] # ErrorEv("Failed to stream container statistics.")

\* C17: Run has left through `return nil` after the loop only when it saw
\* both line channels closed and relayed the exit status as EXIT_CODE, and
\* by then every line that reached a pump has been relayed: nothing is
\* left in the attached stream or in a pump.
C17_CompletedWhenExhausted ==
    Completed
    => /\ result = "nil"
       /\ chanNil = [stdout |-> TRUE, stderr |-> TRUE, status |-> TRUE]
       /\ chClosed /\ demux = "done"
       /\ wait = "taken" /\ Count("EXIT_CODE") = 1
       /\ raw = <<>> /\ \A fd \in Fds : pump[fd] = -1
       /\ Count("STDOUT") + Count("STDERR") = produced.stdout + produced.stderr

C17_Witness ==
    /\ Returned /\ Completed /\ result = "nil"
    /\ produced = [stdout |-> 1, stderr |-> 1]
    /\ Count("STDOUT") = 1 /\ Count("STDERR") = 1
    /\ events[Len(events)].level = "EXIT_CODE"

\* C18: the step of a Stop with force on a registered session invokes Kill
\* once, and nothing else on the container; it ends the call in that step,
\* with success exactly when the kill ended the running container and
\* with Internal otherwise; it leaves the maps, the context, Run's
\* position and result and the stream unchanged.
C18_ForceStopFrame ==
    [][(stop.pc = "looked" /\ stop'.result \in {"Killed", "KillFailed"})
        => /\ stop'.pc = "done"
           /\ calls' = [calls EXCEPT !.killStop = @ + 1]
           /\ (StopResponse' = "OK")
                <=> (cstate = "running" /\ cstate' = "exited" /\ cexit' = KilledCode)
           /\ (StopResponse' = "Internal") <=> (cstate' = cstate /\ cexit' = cexit)
           /\ StopResponse' \in {"OK", "Internal"}
           /\ UNCHANGED <<requests, cancels, ctxErr, pc, result, events, path>>]_vars

C18_Witness ==
    /\ stop.pc = "done" /\ stop.result = "KillFailed" /\ stop.inLoop
    /\ pc = "loop" /\ cstate = "running" /\ ctxErr = "none"
    /\ calls.killStop = 1 /\ RequestID \in DOMAIN requests

\* C19: on the timeout exit, whether or not the kill succeeded, the last
\* message is ERROR "Execution timed out." and Run returns the error of
\* the context (when that send is delivered); during the teardown, whether
\* or not Remove succeeds, the return value and the stream do not change,
\* and the requestId is gone from both maps when Run has returned.
C19_CleanupFailureKeepsOutcome ==
    /\ []((path = "timeout" /\ AllSent)
            => /\ events[Len(events)] = ErrorEv("Execution timed out.")
               /\ result \in {"deadline", "canceled"}
               /\ calls.killRun = 1)
    /\ [][(pc \in {"td_lookup", "td_remove", "td_delete", "td_delete_cs"})
            => UNCHANGED <<result, events, path>>]_vars
    /\ [](Returned => RequestID \notin DOMAIN requests /\ RequestID \notin DOMAIN cancels)

C19_Witness ==
    /\ Returned /\ path = "timeout" /\ result = "deadline"
    /\ calls.killRun = 1 /\ calls.remove = 1 /\ cstate = "running"
    /\ RequestID \notin DOMAIN requests

\* C20 as claimed: the stdout channel is closed once the stdout pump has
\* delivered all its lines and returned, even while the stderr pump is
\* blocked with an undelivered line (and likewise with the two swapped):
\* in such a state the close can happen.
C20_IndependentClose ==
    \A fd \in Fds :
        (demux = "done" /\ pump[fd] = -1 /\ ~chClosed
           /\ \E other \in Fds \ {fd} : pump[other] > 0)
        => ENABLED CloseChannels

\* C20 as amended: both channels are closed together, and only after the
\* attached stream ended and both pumps delivered their lines and returned.
C20_JointClose ==
    /\ chClosed => /\ demux = "done" /\ raw = <<>>
                   /\ \A fd \in Fds : pump[fd] = -1
    /\ \A fd \in Fds : chanNil[fd] => chClosed

C20_Witness ==
    /\ chClosed /\ chanNil.stdout /\ ~chanNil.stderr
    /\ produced.stderr = 2 /\ Count("STDERR") = 2

\* C21: after Run has returned (its deferred cancel has run), the goroutines
\* of the session terminate: no pump stays blocked in `out <- scanner.Text()`.
\* A pump blocked with a line has only Run's loop as its receiver, so once
\* Run has returned such a pump never finishes, wg.Wait() never returns and
\* resp.Close() never runs; the claim therefore requires that no pump holds
\* an undelivered line when Run has returned and the container has stopped.
C21_NoPumpBlockedAfterReturn ==
    (Returned /\ cstate # "running") => \A fd \in Fds : pump[fd] <= 0

RunEffects == <<containerID, events, calls.attach, calls.start, calls.killRun,
                calls.remove, stdinSink, chanNil, result>>

\* C23: the mutex is held only for map lookup, insert and delete. Run holds
\* it exactly while it is between the two map writes of a critical section;
\* no step taken with the mutex held (before or after the step) is a
\* Create, AttachIO, Start, Kill, Remove, stream send or channel receive of
\* Run; the maps change only in steps that hold the mutex; and a step of
\* Stop is either its lookup, which finds the mutex free and leaves it free
\* and the maps as they were, or the kill or cancel after its Unlock.
C23_NarrowCriticalSections ==
    /\ [](mutex = "Run" <=> pc \in {"register_cs", "td_delete_cs"})
    /\ [][(mutex # "unlocked" \/ mutex' # "unlocked") => UNCHANGED RunEffects]_vars
    /\ [][(requests' # requests \/ cancels' # cancels)
            => (mutex = "Run" \/ mutex' = "Run")]_vars
    /\ [][(stop' # stop) => (mutex = "unlocked" \/ stop.pc = "looked")
                             /\ UNCHANGED regVars]_vars

\* Run holds the mutex for the deletes of its teardown, after Remove, while
\* a Stop that has finished its lookup is about to kill.
C23_Witness ==
    /\ mutex = "Run" /\ pc = "td_delete_cs" /\ calls.remove = 1
    /\ stop.pc = "looked" /\ stop.containerOk

\* StartContainer was called and did not fail.
Started == calls.start = 1 /\ path # "start"
\* Run received the exit status from statusChannel.
ExitObserved == wait = "taken" /\ path # "lifecycle"

\* C24: when Run has returned after StartContainer succeeded, the container
\* is not left running unattended: Run received its exit status, or
\* KillContainer was called on it (by Run or by a forced Stop).
C24_NotLeftRunning ==
    (Returned /\ Started)
        => (ExitObserved \/ calls.killRun + calls.killStop >= 1)

\* C25: Stop never calls KillContainer on a container on which the
\* teardown has already called RemoveContainer.
C25_NoKillAfterRemove ==
    [][(calls'.killStop # calls.killStop) => calls.remove = 0]_vars

\* C26: no event is sent on the response stream after Run has returned: the
\* statistics relay is not inside stream.Send once Run has returned (here
\* with every send of Run delivered and the container stopped).
C26_NoSendAfterReturn ==
    (Returned /\ AllSent /\ cstate # "running") => relay # "sending"

\* C27: at most one goroutine is inside stream.Send at a time: Run performs
\* no send on the stream while the statistics relay is inside its own.
C27_OneSenderAtATime ==
    [][(events' # events) => relay # "sending"]_vars

====
